---- MODULE Spec2Model ----
(***************************************************************************)
(* YAO (Yet Another Othello): the rule engine (Core), the evaluator and    *)
(* the alpha-beta search (Engine), the command parser (UI), the controller *)
(* and the game loop of src/yao.cpp.                                       *)
(*                                                                         *)
(* A bitboard (uint64) is modelled as the set of its set bit indices, a    *)
(* subset of 0..63: bit i is cell i, row i \div 8, column i % 8.  The      *)
(* bitwise operators become set operators (| is \cup, & is \cap, ~x is     *)
(* Cells \ x) and a shift moves every index, dropping what leaves 0..63.   *)
(***************************************************************************)
EXTENDS Integers, Sequences, FiniteSets, TLC

VARIABLES
  state,       \* the current snapshot (a GameState value)
  history_,    \* GameController::history_, a sequence of snapshots
  running,     \* main: the loop flag
  input,       \* main: the line last read, a sequence of characters
  calls        \* the apply_move / apply_pass calls of the last loop iteration

vars == <<state, history_, running, input, calls>>

loop_vars == <<history_, running, input, calls>>

\* No controller and no game loop: the functions of the rule engine and of
\* the engine are called on a snapshot directly.
no_loop == history_ = <<>> /\ running = FALSE /\ input = <<>> /\ calls = {}

(***************************************************************************)
(* Part 1: CORE                                                            *)
(***************************************************************************)
Cells == 0 .. 63

ALL_BITS == Cells            \* 0xFFFFFFFFFFFFFFFFULL

COORDS ==
  << "A1","B1","C1","D1","E1","F1","G1","H1",
     "A2","B2","C2","D2","E2","F2","G2","H2",
     "A3","B3","C3","D3","E3","F3","G3","H3",
     "A4","B4","C4","D4","E4","F4","G4","H4",
     "A5","B5","C5","D5","E5","F5","G5","H5",
     "A6","B6","C6","D6","E6","F6","G6","H6",
     "A7","B7","C7","D7","E7","F7","G7","H7",
     "A8","B8","C8","D8","E8","F8","G8","H8" >>

Player == {"Black", "White"}

switch_player(p) == IF p = "Black" THEN "White" ELSE "Black"

\* The starting position with the two colours exchanged.
GameState_colours_swapped ==
  [ black_discs     |-> {28, 35},
    white_discs     |-> {27, 36},
    current_player  |-> "Black",
    pass_count      |-> 0,
    last_move_coord |-> "START" ]

\* GameState(): the starting position.
GameState ==
  [ black_discs     |-> {27, 36},
    white_discs     |-> {28, 35},
    current_player  |-> "Black",
    pass_count      |-> 0,
    last_move_coord |-> "START" ]

index_to_coord(index) ==
  IF index < 0 \/ index > 63 THEN "XX" ELSE COORDS[index + 1]

\* C++ remainder (truncated division): the sign follows the dividend.
c_rem(a, b) == IF a >= 0 THEN a % b ELSE -((-a) % b)

DIRECTIONS == << -9, -8, -7, -1, 1, 7, 8, 9 >>

\* 0xFEFEFEFEFEFEFEFE: every bit but bit 0 of each byte (column A cleared).
MASK_A == { i \in Cells : i % 8 # 0 }
\* 0x7F7F7F7F7F7F7F7F: every bit but bit 7 of each byte (column H cleared).
MASK_H == { i \in Cells : i % 8 # 7 }

\* x >> n and x << n on 64 bits.
shift_right(x, n) == { i - n : i \in { j \in x : j - n >= 0 } }
shift_left(x, n)  == { i + n : i \in { j \in x : j + n <= 63 } }

\* x & y, and (x & y) != 0.
bit_and(x, y)    == { j \in x : j \in y }
intersects(x, y) == \E j \in x : j \in y

\* The step of get_flips_in_direction: mask first, then shift.
shift_step(current, direction, mask) ==
  IF direction < 0
    THEN shift_right(bit_and(current, mask), -direction)
    ELSE shift_left(bit_and(current, mask), direction)

\* The while loop of get_flips_in_direction, from the values current and
\* flipped have when the loop condition is tested.
RECURSIVE traverse(_, _, _, _, _)
traverse(current, flipped, opp_board, direction, mask) ==
  IF current # {} /\ intersects(current, opp_board)
    THEN traverse(shift_step(current, direction, mask), flipped \cup current,
                  opp_board, direction, mask)
    ELSE [current |-> current, flipped |-> flipped]

\* get_flips_in_direction without step 2: the run of opponent discs is
\* returned whatever follows it.
get_flips_in_direction_unanchored(move_mask, own_board, opp_board, direction, mask) ==
  traverse(shift_step(move_mask, direction, mask), {},
           opp_board, direction, mask).flipped

get_flips_in_direction(move_mask, own_board, opp_board, direction, mask) ==
  LET r == traverse(shift_step(move_mask, direction, mask), {},
                    opp_board, direction, mask)
  IN  IF r.current # {} /\ intersects(r.current, own_board)
        THEN r.flipped
        ELSE {}

\* The wrap-around mask chosen for a direction (the same code in
\* generate_legal_moves and in get_flips_for_move).
direction_mask(dir) ==
  IF c_rem(dir, 8) # 0
    THEN IF dir > 0 THEN MASK_H ELSE MASK_A
    ELSE ALL_BITS

\* The non-zero values `current` takes, in order, when the ray leaves cell
\* move_index in direction dir (the first shift and the shifts of the loop).
RECURSIVE walk_from(_, _, _, _)
walk_from(current, opp_board, direction, mask) ==
  IF current = {} THEN << >>
  ELSE IF intersects(current, opp_board)
    THEN <<current>> \o walk_from(shift_step(current, direction, mask),
                                   opp_board, direction, mask)
  ELSE <<current>>

cells_walked(move_index, opp_board, dir) ==
  walk_from(shift_step({move_index}, dir, direction_mask(dir)),
            opp_board, dir, direction_mask(dir))

own_board_of(s) ==
  IF s.current_player = "Black" THEN s.black_discs ELSE s.white_discs
opp_board_of(s) ==
  IF s.current_player = "Black" THEN s.white_discs ELSE s.black_discs

\* The first shift of get_flips_in_direction for every direction d (an index
\* of DIRECTIONS) and every single-bit move_mask {i}, tabulated.
first_step ==
  [ d \in 1 .. 8 |->
      [ i \in Cells |->
          shift_step({i}, DIRECTIONS[d], direction_mask(DIRECTIONS[d])) ] ]

\* For every cell, the cells reached by the first shift of the 8 directions.
first_steps ==
  [ i \in Cells |-> UNION { first_step[d][i] : d \in 1 .. 8 } ]

\* One iteration of the loop over the 8 directions: what it ORs into
\* total_flips.  When the first shift does not land on an opponent disc the
\* loop condition of get_flips_in_direction fails at once, flipped stays 0
\* and the call returns 0 on either path; the call is skipped then.
direction_flips(move_index, own_board, opp_board, d) ==
  IF \A c \in first_step[d][move_index] : c \notin opp_board
    THEN {}
    ELSE get_flips_in_direction({move_index}, own_board, opp_board,
                                DIRECTIONS[d], direction_mask(DIRECTIONS[d]))

\* The loop over the 8 directions: total_flips after it.
total_flips_of(move_index, own_board, opp_board) ==
  IF \A c \in first_steps[move_index] : c \notin opp_board
    THEN {}
    ELSE UNION { direction_flips(move_index, own_board, opp_board, d)
                 : d \in 1 .. 8 }

\* For every cell c, the cells one of whose 8 first shifts lands on c.
touching ==
  [ c \in Cells |-> { i \in Cells : c \in first_steps[i] } ]

\* The loop of generate_legal_moves visits every empty cell.  A cell none of
\* whose first shifts lands on an opponent disc gets total_flips = 0 (see
\* total_flips_of), so only the cells touching an opponent disc are tested.
generate_legal_moves(s) ==
  LET own_board   == own_board_of(s)
      opp_board   == opp_board_of(s)
      empty_board == Cells \ (own_board \cup opp_board)
      touched     == UNION { touching[c] : c \in opp_board }
  IN  { i \in touched :
          /\ i \in empty_board
          /\ total_flips_of(i, own_board, opp_board) # {} }

\* get_flips_for_move with the direction loop stopped after DIRECTIONS[0].
get_flips_for_move_first_direction(s, move_index) ==
  direction_flips(move_index, own_board_of(s), opp_board_of(s), 1)

get_flips_for_move(s, move_index) ==
  total_flips_of(move_index, own_board_of(s), opp_board_of(s))

\* apply_move that only removes the captured discs: nothing is placed and
\* nothing recoloured.
apply_move_drops_captured(s, move_index) ==
  LET flips == get_flips_for_move(s, move_index)
  IN  IF s.current_player = "Black"
        THEN [ black_discs     |-> s.black_discs,
               white_discs     |-> s.white_discs \ flips,
               current_player  |-> switch_player(s.current_player),
               pass_count      |-> 0,
               last_move_coord |-> index_to_coord(move_index) ]
        ELSE [ black_discs     |-> s.black_discs \ flips,
               white_discs     |-> s.white_discs,
               current_player  |-> switch_player(s.current_player),
               pass_count      |-> 0,
               last_move_coord |-> index_to_coord(move_index) ]

\* apply_move with the capture not removed from the opponent's board.
apply_move_keeps_captured(s, move_index) ==
  LET move_mask == {move_index}
      flips     == get_flips_for_move(s, move_index)
  IN  IF s.current_player = "Black"
        THEN [ black_discs     |-> (s.black_discs \cup move_mask) \cup flips,
               white_discs     |-> s.white_discs,
               current_player  |-> switch_player(s.current_player),
               pass_count      |-> 0,
               last_move_coord |-> index_to_coord(move_index) ]
        ELSE [ black_discs     |-> s.black_discs,
               white_discs     |-> (s.white_discs \cup move_mask) \cup flips,
               current_player  |-> switch_player(s.current_player),
               pass_count      |-> 0,
               last_move_coord |-> index_to_coord(move_index) ]

\* apply_move with the captured discs recoloured but no new disc placed.
apply_move_places_nothing(s, move_index) ==
  LET flips == get_flips_for_move(s, move_index)
  IN  IF s.current_player = "Black"
        THEN [ black_discs     |-> s.black_discs \cup flips,
               white_discs     |-> s.white_discs \ flips,
               current_player  |-> switch_player(s.current_player),
               pass_count      |-> 0,
               last_move_coord |-> index_to_coord(move_index) ]
        ELSE [ black_discs     |-> s.black_discs \ flips,
               white_discs     |-> s.white_discs \cup flips,
               current_player  |-> switch_player(s.current_player),
               pass_count      |-> 0,
               last_move_coord |-> index_to_coord(move_index) ]

\* apply_move with pass_count left as it was.
apply_move_keeps_pass_count(s, move_index) ==
  LET move_mask == {move_index}
      flips     == get_flips_for_move(s, move_index)
  IN  IF s.current_player = "Black"
        THEN [ black_discs     |-> (s.black_discs \cup move_mask) \cup flips,
               white_discs     |-> s.white_discs \ flips,
               current_player  |-> switch_player(s.current_player),
               pass_count      |-> s.pass_count,
               last_move_coord |-> index_to_coord(move_index) ]
        ELSE [ black_discs     |-> s.black_discs \ flips,
               white_discs     |-> (s.white_discs \cup move_mask) \cup flips,
               current_player  |-> switch_player(s.current_player),
               pass_count      |-> s.pass_count,
               last_move_coord |-> index_to_coord(move_index) ]

apply_move(s, move_index) ==
  LET move_mask == {move_index}
      flips     == get_flips_for_move(s, move_index)
  IN  IF s.current_player = "Black"
        THEN [ black_discs     |-> (s.black_discs \cup move_mask) \cup flips,
               white_discs     |-> s.white_discs \ flips,
               current_player  |-> switch_player(s.current_player),
               pass_count      |-> 0,
               last_move_coord |-> index_to_coord(move_index) ]
        ELSE [ black_discs     |-> s.black_discs \ flips,
               white_discs     |-> (s.white_discs \cup move_mask) \cup flips,
               current_player  |-> switch_player(s.current_player),
               pass_count      |-> 0,
               last_move_coord |-> index_to_coord(move_index) ]

apply_pass(s) ==
  [ s EXCEPT !.current_player  = switch_player(s.current_player),
             !.pass_count      = s.pass_count + 1,
             !.last_move_coord = "PASS" ]

count_discs(board) == Cardinality(board)

\* is_terminal without its last test (neither side has a legal move).
is_terminal_without_no_move_test(s, black_legal, white_legal) ==
  LET total_discs == count_discs(s.black_discs) + count_discs(s.white_discs)
  IN  IF total_discs = 64 THEN TRUE
      ELSE IF s.pass_count >= 2 THEN TRUE
      ELSE IF count_discs(s.black_discs) = 0 \/ count_discs(s.white_discs) = 0
        THEN TRUE
      ELSE FALSE

\* is_terminal with the no-move test on either set (|| for &&).
is_terminal_either_empty(s, black_legal, white_legal) ==
  LET total_discs == count_discs(s.black_discs) + count_discs(s.white_discs)
  IN  IF total_discs = 64 THEN TRUE
      ELSE IF s.pass_count >= 2 THEN TRUE
      ELSE IF count_discs(s.black_discs) = 0 \/ count_discs(s.white_discs) = 0
        THEN TRUE
      ELSE IF (count_discs(black_legal) = 0 \/ count_discs(white_legal) = 0)
              /\ total_discs < 64
        THEN TRUE
      ELSE FALSE

\* is_terminal with the pass test off by one (pass_count > 2).
is_terminal_after_three_passes(s, black_legal, white_legal) ==
  LET total_discs == count_discs(s.black_discs) + count_discs(s.white_discs)
  IN  IF total_discs = 64 THEN TRUE
      ELSE IF s.pass_count > 2 THEN TRUE
      ELSE IF count_discs(s.black_discs) = 0 \/ count_discs(s.white_discs) = 0
        THEN TRUE
      ELSE IF count_discs(black_legal) = 0 /\ count_discs(white_legal) = 0
              /\ total_discs < 64
        THEN TRUE
      ELSE FALSE

is_terminal(s, black_legal, white_legal) ==
  LET total_discs == count_discs(s.black_discs) + count_discs(s.white_discs)
  IN  IF total_discs = 64 THEN TRUE
      ELSE IF s.pass_count >= 2 THEN TRUE
      ELSE IF count_discs(s.black_discs) = 0 \/ count_discs(s.white_discs) = 0
        THEN TRUE
      ELSE IF count_discs(black_legal) = 0 /\ count_discs(white_legal) = 0
              /\ total_discs < 64
        THEN TRUE
      ELSE FALSE

(***************************************************************************)
(* Part 2: ENGINE                                                          *)
(***************************************************************************)
POSITION_WEIGHTS ==
  << 200, -20, 10,  5,  5, 10, -20, 200,
     -20, -30, -5, -5, -5, -5, -30, -20,
      10,  -5,  2,  2,  2,  2,  -5,  10,
       5,  -5,  2,  1,  1,  2,  -5,   5,
       5,  -5,  2,  1,  1,  2,  -5,   5,
      10,  -5,  2,  2,  2,  2,  -5,  10,
     -20, -30, -5, -5, -5, -5, -30, -20,
     200, -20, 10,  5,  5, 10, -20, 200 >>

INT_MAX == 2147483647
INT_MIN == -INT_MAX - 1            \* -2147483648

max_int(a, b) == IF a < b THEN b ELSE a      \* std::max
min_int(a, b) == IF b < a THEN b ELSE a      \* std::min

\* (int)(x) of the exact quotient num / den: rounds toward zero.
trunc_div(num, den) ==
  IF num >= 0 THEN num \div den ELSE -((-num) \div den)

\* The values found in POSITION_WEIGHTS.
WeightValues == { POSITION_WEIGHTS[k] : k \in 1 .. 64 }

\* The sum of the values of the set ws, each multiplied by the number of
\* set bits of board that carry it.
RECURSIVE weight_sum(_, _)
weight_sum(board, ws) ==
  IF ws = {} THEN 0
  ELSE LET w == CHOOSE v \in ws : TRUE
       IN  w * Cardinality({ i \in board : POSITION_WEIGHTS[i + 1] = w })
             + weight_sum(board, ws \ {w})

\* The sum of POSITION_WEIGHTS[i] over the set bits i of board.
board_weight(board) == weight_sum(board, WeightValues)

\* The loop of step 2 of evaluate (cells 0 .. 63): what it adds to ai_score
\* and to opp_score.  A cell is tested for Black first and for White only
\* otherwise (else if).
position_loop(s, ai_player) ==
  LET black_sum == board_weight(s.black_discs)
      white_sum == board_weight(s.white_discs \ s.black_discs)
  IN  IF ai_player = "Black"
        THEN [ai_score |-> black_sum, opp_score |-> white_sum]
        ELSE [ai_score |-> white_sum, opp_score |-> black_sum]

\* phase_weight as the fraction <<numerator, denominator>>: 0.5, 2.0 or 5.0.
phase_weight(total_discs) ==
  IF total_discs <= 20 THEN <<1, 2>>
  ELSE IF total_discs <= 40 THEN <<2, 1>>
  ELSE <<5, 1>>

evaluate(s, ai_player) ==
  LET ai_legal     == generate_legal_moves(s)
      next_state   == [s EXCEPT !.current_player = switch_player(s.current_player)]
      opp_legal    == generate_legal_moves(next_state)
      ai_mobility  == count_discs(ai_legal)
      opp_mobility == count_discs(opp_legal)
      positional   == position_loop(s, ai_player)
      black_discs  == count_discs(s.black_discs)
      white_discs  == count_discs(s.white_discs)
      disc_diff    == IF ai_player = "Black"
                        THEN black_discs - white_discs
                        ELSE white_discs - black_discs
      total_discs  == black_discs + white_discs
      w            == phase_weight(total_discs)
      ai_score     == ai_mobility * 5 + positional.ai_score
                        + trunc_div(disc_diff * w[1], w[2])
      opp_score    == opp_mobility * 5 + positional.opp_score
  IN  ai_score - opp_score

\* The pruning test with its operands swapped.
prune_swapped(alpha, beta) == alpha <= beta

\* The pruning test of both move loops.
prune(alpha, beta) == beta <= alpha

\* The lower half of a set of cells (its first Cardinality \div 2 cells in
\* ascending order).
lower_half(mask) ==
  { i \in mask :
      Cardinality({ j \in mask : j < i }) < Cardinality(mask) \div 2 }

\* The lowest set bit: for (i = 0; i < 64; ++i) if (mask & (1ULL << i))
\* visits the set bits of mask in ascending order.
lowest_bit(mask) == CHOOSE i \in mask : \A j \in mask : i <= j

\* The record kept of one minimax_ab call and of the calls nested in it:
\*   evaluated  the snapshots handed to evaluate, each with the number of
\*              apply_move calls (moves) and of apply_pass calls (passes)
\*              between this call and that evaluate call;
\*   calls      the apply_move and apply_pass calls made (index -1: a pass);
\*   lead       how many forced-pass recursions (line 441) follow one another
\*              starting with this call's own; chain the greatest lead below;
\*   mindepth   the least depth argument of any call;
\*   height     the greatest number of calls nested in one another;
\*   flags      for every minimax_ab call, the side to move of its snapshot
\*              with its maximizing_player and ai_player arguments.
call_flags(s, maximizing_player, ai_player) ==
  [ player     |-> s.current_player,
    maximizing |-> maximizing_player,
    ai         |-> ai_player ]

leaf_log(s, depth, flags) ==
  [ evaluated |-> { [s |-> s, moves |-> 0, passes |-> 0] },
    calls     |-> {},
    lead      |-> 0,
    chain     |-> 0,
    mindepth  |-> depth,
    height    |-> 1,
    flags     |-> {flags} ]

loop_log(depth, flags) ==
  [ evaluated |-> {}, calls |-> {}, lead |-> 0, chain |-> 0,
    mindepth |-> depth, height |-> 1, flags |-> {flags} ]

pass_log(s, depth, flags, child) ==
  [ evaluated |-> { [e EXCEPT !.passes = @ + 1] : e \in child.evaluated },
    flags     |-> child.flags \cup {flags},
    calls     |-> child.calls \cup { [op |-> "apply_pass", s |-> s, index |-> -1] },
    lead      |-> child.lead + 1,
    chain     |-> max_int(child.chain, child.lead + 1),
    mindepth  |-> min_int(depth, child.mindepth),
    height    |-> child.height + 1 ]

move_log(log, s, i, child) ==
  [ evaluated |-> log.evaluated
                    \cup { [e EXCEPT !.moves = @ + 1] : e \in child.evaluated },
    calls     |-> log.calls \cup child.calls
                    \cup { [op |-> "apply_move", s |-> s, index |-> i] },
    flags     |-> log.flags \cup child.flags,
    lead      |-> 0,
    chain     |-> max_int(log.chain, child.chain),
    mindepth  |-> min_int(log.mindepth, child.mindepth),
    height    |-> max_int(log.height, child.height + 1) ]

\* The depth a forced pass recurses with: the same depth.
pass_depth_one_less(depth) == depth - 1

pass_depth(depth) == depth

\* The maximizing flag a forced pass recurses with, left as it is.
pass_flag_kept(maximizing_player) == maximizing_player

\* The maximizing flag a forced pass recurses with: !maximizing_player.
pass_flag(maximizing_player) == ~maximizing_player

\* A local variable: F applied to the value of v, which is computed once.
with_value(v, F(_)) == CHOOSE y \in { F(x) : x \in {v} } : TRUE

\* minimax_ab_run returns the value minimax_ab returns (eval), the number
\* of evaluate calls made below it (leaves), which pruning reduces, and the
\* record of the calls (log).
RECURSIVE minimax_ab_run(_, _, _, _, _, _)
RECURSIVE max_loop(_, _, _, _, _, _, _, _, _)
RECURSIVE min_loop(_, _, _, _, _, _, _, _, _)
RECURSIVE max_step(_, _, _, _, _, _, _, _, _)
RECURSIVE min_step(_, _, _, _, _, _, _, _, _)

minimax_ab_run(s, depth, alpha, beta, maximizing_player, ai_player) ==
  LET opponent_state == [s EXCEPT !.current_player =
                                     switch_player(s.current_player)]
  IN  with_value(
        [ own |-> generate_legal_moves(s),
          opp |-> generate_legal_moves(opponent_state) ],
        LAMBDA masks :
          LET legal_moves_mask     == masks.own
              opponent_legal_moves == masks.opp
          IN  IF depth = 0
                 \/ is_terminal(s, legal_moves_mask, opponent_legal_moves)
                THEN [eval |-> evaluate(s, ai_player), leaves |-> 1,
                      log |-> leaf_log(s, depth,
                                       call_flags(s, maximizing_player,
                                                  ai_player))]
              ELSE IF count_discs(legal_moves_mask) = 0
                THEN with_value(
                       minimax_ab_run(apply_pass(s), pass_depth(depth), alpha,
                                      beta, pass_flag(maximizing_player),
                                      ai_player),
                       LAMBDA r :
                         [eval |-> r.eval, leaves |-> r.leaves,
                          log |-> pass_log(s, depth,
                                           call_flags(s, maximizing_player,
                                                      ai_player),
                                           r.log)])
              ELSE IF maximizing_player
                THEN max_loop(s, depth, legal_moves_mask, INT_MIN, alpha,
                              beta, ai_player, 0,
                              loop_log(depth,
                                       call_flags(s, maximizing_player,
                                                  ai_player)))
                ELSE min_loop(s, depth, legal_moves_mask, INT_MAX, alpha,
                              beta, ai_player, 0,
                              loop_log(depth,
                                       call_flags(s, maximizing_player,
                                                  ai_player))))

\* One iteration of the maximizing loop, on move i: the child is searched,
\* max_eval and alpha are updated and the break test is made (stop).
max_step(s, depth, i, max_eval, alpha, beta, ai_player, leaves, log) ==
  with_value(
    minimax_ab_run(apply_move(s, i), depth - 1, alpha, beta, FALSE, ai_player),
    LAMBDA r :
      [ eval   |-> max_int(max_eval, r.eval),
        alpha  |-> max_int(alpha, max_int(max_eval, r.eval)),
        leaves |-> leaves + r.leaves,
        log    |-> move_log(log, s, i, r.log),
        stop   |-> prune(max_int(alpha, max_int(max_eval, r.eval)), beta) ])

\* The move loop of the maximizing branch over the legal moves todo, in
\* ascending order (the lower half of todo, then, unless the loop broke
\* off, the upper half), from the values max_eval, alpha, leaves and log
\* the loop has reached so far.
max_loop(s, depth, todo, max_eval, alpha, beta, ai_player, leaves, log) ==
  IF todo = {}
    THEN [eval |-> max_eval, alpha |-> alpha, leaves |-> leaves,
          log |-> log, stop |-> FALSE]
  ELSE IF Cardinality(todo) = 1
    THEN max_step(s, depth, lowest_bit(todo), max_eval, alpha, beta,
                  ai_player, leaves, log)
  ELSE with_value(
         max_loop(s, depth, lower_half(todo), max_eval, alpha, beta,
                  ai_player, leaves, log),
         LAMBDA n :
           IF n.stop THEN n
           ELSE max_loop(s, depth, todo \ lower_half(todo), n.eval, n.alpha,
                         beta, ai_player, n.leaves, n.log))

\* One iteration of the minimizing loop, on move i.
min_step(s, depth, i, min_eval, alpha, beta, ai_player, leaves, log) ==
  with_value(
    minimax_ab_run(apply_move(s, i), depth - 1, alpha, beta, TRUE, ai_player),
    LAMBDA r :
      [ eval   |-> min_int(min_eval, r.eval),
        beta   |-> min_int(beta, min_int(min_eval, r.eval)),
        leaves |-> leaves + r.leaves,
        log    |-> move_log(log, s, i, r.log),
        stop   |-> prune(alpha, min_int(beta, min_int(min_eval, r.eval))) ])

\* The move loop of the minimizing branch.
min_loop(s, depth, todo, min_eval, alpha, beta, ai_player, leaves, log) ==
  IF todo = {}
    THEN [eval |-> min_eval, beta |-> beta, leaves |-> leaves,
          log |-> log, stop |-> FALSE]
  ELSE IF Cardinality(todo) = 1
    THEN min_step(s, depth, lowest_bit(todo), min_eval, alpha, beta,
                  ai_player, leaves, log)
  ELSE with_value(
         min_loop(s, depth, lower_half(todo), min_eval, alpha, beta,
                  ai_player, leaves, log),
         LAMBDA n :
           IF n.stop THEN n
           ELSE min_loop(s, depth, todo \ lower_half(todo), n.eval, alpha,
                         n.beta, ai_player, n.leaves, n.log))

minimax_ab(s, depth, alpha, beta, maximizing_player, ai_player) ==
  minimax_ab_run(s, depth, alpha, beta, maximizing_player, ai_player).eval

\* The root-level comparison with >= for >: a tie replaces the best move.
better_or_equal_eval(current_eval, best_eval) == current_eval >= best_eval

\* Whether a root-level score replaces the best one seen so far.
better_eval(current_eval, best_eval) == current_eval > best_eval

\* The root loop of find_best_move; todo holds the legal moves not yet
\* visited, log the record of the calls made so far (the root loop never
\* breaks: apply_move on every legal move, minimax_ab on the child at
\* depth - 1).
\* One iteration of the root loop, on move i.
best_move_step(s, depth, i, best_move_index, best_eval, log) ==
  with_value(
    minimax_ab_run(apply_move(s, i), depth - 1, INT_MIN, INT_MAX, FALSE,
                   s.current_player),
    LAMBDA r :
      IF better_eval(r.eval, best_eval)
        THEN [move |-> i, eval |-> r.eval, log |-> move_log(log, s, i, r.log)]
        ELSE [move |-> best_move_index, eval |-> best_eval,
              log |-> move_log(log, s, i, r.log)])

\* The move loop of find_best_move over the legal moves todo, in ascending
\* order, from the best move and score seen so far; it never breaks off.
RECURSIVE best_move_loop(_, _, _, _, _, _)
best_move_loop(s, depth, todo, best_move_index, best_eval, log) ==
  IF todo = {}
    THEN [move |-> best_move_index, eval |-> best_eval, log |-> log]
  ELSE IF Cardinality(todo) = 1
    THEN best_move_step(s, depth, lowest_bit(todo), best_move_index,
                        best_eval, log)
  ELSE with_value(
         best_move_loop(s, depth, lower_half(todo), best_move_index,
                        best_eval, log),
         LAMBDA n :
           best_move_loop(s, depth, todo \ lower_half(todo), n.move, n.eval,
                          n.log))

\* find_best_move: the move returned and the record of the calls made.
find_best_move_run(s, depth) ==
  LET legal_moves_mask == generate_legal_moves(s)
      root_log         == [ evaluated |-> {}, calls |-> {}, lead |-> 0,
                            chain |-> 0, mindepth |-> depth - 1,
                            height |-> 0, flags |-> {} ]
  IN  IF count_discs(legal_moves_mask) = 0
        THEN [move |-> -1, log |-> root_log]
        ELSE best_move_loop(s, depth, legal_moves_mask, -2, INT_MIN, root_log)

find_best_move(s, depth) == find_best_move_run(s, depth).move

find_best_move_log(s, depth) == find_best_move_run(s, depth).log

(***************************************************************************)
(* The rule engine as a state machine: from the snapshot GameState()       *)
(* builds, Core::apply_move with a move of generate_legal_moves or         *)
(* Core::apply_pass, each applied to the snapshot the last one returned.   *)
(***************************************************************************)
MaxDiscs == 8          \* moves are explored up to this many discs
MaxPass  == 3          \* passes are explored up to this pass_count

Init == state = GameState /\ no_loop

ApplyMove ==
  /\ count_discs(state.black_discs) + count_discs(state.white_discs) < MaxDiscs
  /\ \E i \in generate_legal_moves(state) : state' = apply_move(state, i)
  /\ UNCHANGED loop_vars

ApplyPass ==
  /\ state.pass_count < MaxPass
  /\ state' = apply_pass(state)
  /\ UNCHANGED loop_vars

Next == ApplyMove \/ ApplyPass

Spec == Init /\ [][Next]_vars

(***************************************************************************)
(* The rule engine and the engine on arbitrary snapshots: the starting     *)
(* position and every snapshot whose discs lie on the first RegionSize     *)
(* cells of RegionCells, either side to move; from each, a legal move or   *)
(* up to MaxPass passes, and a legal move after the passes.                *)
(***************************************************************************)
RegionCells == << 1, 8, 15, 0, 9, 2, 10, 16, 7, 14, 21 >>
RegionSize  == 6

Region == { RegionCells[k] : k \in 1 .. RegionSize }

Boards ==
  { [ black_discs     |-> b,
      white_discs     |-> w,
      current_player  |-> p,
      pass_count      |-> 0,
      last_move_coord |-> "START" ]
    : b \in SUBSET Region, w \in SUBSET Region, p \in Player }

InitBoards ==
  /\ state \in Boards \cup {GameState}
  /\ state.black_discs \cap state.white_discs = {}
  /\ no_loop

BoardMove ==
  /\ state.last_move_coord \in {"START", "PASS"}
  /\ \E i \in generate_legal_moves(state) : state' = apply_move(state, i)
  /\ UNCHANGED loop_vars

BoardPass ==
  /\ state.last_move_coord \in {"START", "PASS"}
  /\ state.pass_count < MaxPass
  /\ state' = apply_pass(state)
  /\ UNCHANGED loop_vars

NextBoards == BoardMove \/ BoardPass

SpecBoards == InitBoards /\ [][NextBoards]_vars

(***************************************************************************)
(* The engine playing the side to move: from the starting position and     *)
(* from every snapshot whose discs lie on the first SearchRegionSize cells *)
(* of SearchCells or fill the board (either side to move, pass_count 0 or  *)
(* 1), and from two snapshots of games played from the start (Black's      *)
(* moves typed, White's replies those of get_ai_move), on which the legal  *)
(* moves differ in score: Engine::find_best_move at a depth of             *)
(* 1 .. MaxDepth, then                                                     *)
(* Core::apply_move with the move it returns, or Core::apply_pass when it  *)
(* returns -1.                                                             *)
(***************************************************************************)
SearchCells      == << 0, 1, 10, 9, 8, 2, 16, 18, 17 >>
SearchRegionSize == 3
MaxDepth         == 2      \* search depths explored
MaxSearchDiscs   == 4      \* the engine moves below this many discs

SearchRegion == { SearchCells[k] : k \in 1 .. SearchRegionSize }

SearchBoards ==
  { [ black_discs     |-> b,
      white_discs     |-> w,
      current_player  |-> p,
      pass_count      |-> n,
      last_move_coord |-> "START" ]
    : b \in SUBSET SearchRegion, w \in SUBSET SearchRegion,
      p \in Player, n \in {0, 1} }

\* Full boards: Black on a part of the search region, White everywhere else.
FullBoards ==
  { [ black_discs     |-> b,
      white_discs     |-> Cells \ b,
      current_player  |-> p,
      pass_count      |-> n,
      last_move_coord |-> "START" ]
    : b \in SUBSET SearchRegion, p \in Player, n \in {0, 1} }

\* The first moves of two games played from the start: Black to move after
\* four moves, White to move after three.
OpeningLines ==
  { << 29, 21, 43, 42 >>,
    << 43, 42, 20 >> }

\* apply_move for every move of moves, in order.
RECURSIVE play(_, _)
play(s, moves) ==
  IF moves = <<>> THEN s
  ELSE play(apply_move(s, Head(moves)), Tail(moves))

PlayedBoards == { play(GameState, line) : line \in OpeningLines }

InitSearch ==
  /\ state \in SearchBoards \cup FullBoards \cup PlayedBoards \cup {GameState}
  /\ state.black_discs \cap state.white_discs = {}
  /\ no_loop

\* check_game_end: is_terminal with the legal moves of both sides.
game_over(s) ==
  LET legal_moves       == generate_legal_moves(s)
      next_player_state == [s EXCEPT !.current_player =
                                        switch_player(s.current_player)]
      next_player_legal == generate_legal_moves(next_player_state)
  IN  is_terminal(s, legal_moves, next_player_legal)

AiMove ==
  /\ count_discs(state.black_discs) + count_discs(state.white_discs)
       < MaxSearchDiscs
  /\ \E depth \in 1 .. MaxDepth :
       LET ai_move == find_best_move(state, depth)
       IN  /\ ai_move # -1
           /\ state' = apply_move(state, ai_move)
  /\ UNCHANGED loop_vars

AiPass ==
  /\ state.pass_count < MaxPass
  /\ \E depth \in 1 .. MaxDepth :
       LET ai_move == find_best_move(state, depth)
       IN  /\ ai_move = -1
           /\ state' = apply_pass(state)
  /\ UNCHANGED loop_vars

NextSearch == AiMove \/ AiPass

SpecSearch == InitSearch /\ [][NextSearch]_vars

(***************************************************************************)
(* Part 3: UI, CONTROLLER AND GAME LOOP                                    *)
(*                                                                         *)
(* A std::string the program inspects character by character (the input    *)
(* line) is a sequence of one-character strings; str gives the string.     *)
(***************************************************************************)
LowerCase ==
  << "a","b","c","d","e","f","g","h","i","j","k","l","m",
     "n","o","p","q","r","s","t","u","v","w","x","y","z" >>
UpperCase ==
  << "A","B","C","D","E","F","G","H","I","J","K","L","M",
     "N","O","P","Q","R","S","T","U","V","W","X","Y","Z" >>

\* ::toupper left out: the character is kept as it is.
toupper_keeps_case(ch) == ch

\* ::toupper on one character.
toupper(ch) ==
  IF \E k \in 1 .. 26 : LowerCase[k] = ch
    THEN UpperCase[CHOOSE k \in 1 .. 26 : LowerCase[k] = ch]
    ELSE ch

\* std::transform(..., ::toupper) over a string.
to_upper(text) == [k \in 1 .. Len(text) |-> toupper(text[k])]

\* The characters of " \n\r\t".
Whitespace == {" ", "\n", "\r", "\t"}

\* erase(find_last_not_of(" \n\r\t") + 1) and
\* erase(0, find_first_not_of(" \n\r\t")).
RECURSIVE trim_right(_)
trim_right(text) ==
  IF text = <<>> \/ text[Len(text)] \notin Whitespace THEN text
  ELSE trim_right(SubSeq(text, 1, Len(text) - 1))

RECURSIVE trim_left(_)
trim_left(text) ==
  IF text = <<>> \/ text[1] \notin Whitespace THEN text
  ELSE trim_left(Tail(text))

\* The std::string made of the characters of text.
RECURSIVE str(_)
str(text) == IF text = <<>> THEN "" ELSE Head(text) \o str(Tail(text))

\* coord_to_index: upper-case the text, then the first i with
\* COORDS[i] == upper_coord, or -1.
coord_to_index(coord) ==
  LET upper_coord == str(to_upper(coord))
      found       == { i \in Cells : COORDS[i + 1] = upper_coord }
  IN  IF found = {} THEN -1 ELSE lowest_bit(found)

\* The PASS test of parse_command always true.
pass_allowed_always(legal_moves) == TRUE

\* The PASS test of parse_command: no legal move.
pass_allowed(legal_moves) == count_discs(legal_moves) = 0

\* parse_command: the Command (type and move_index) of an input line.
parse_command(text, legal_moves) ==
  LET upper_input == trim_left(trim_right(to_upper(text)))
      word        == str(upper_input)
      index       == coord_to_index(upper_input)
  IN  IF word = "Q" THEN [type |-> "QUIT", move_index |-> -1]
      ELSE IF word = "U" THEN [type |-> "UNDO", move_index |-> -1]
      ELSE IF word = "?" THEN [type |-> "HINT", move_index |-> -1]
      ELSE IF word = "P"
        THEN IF pass_allowed(legal_moves)
               THEN [type |-> "PASS", move_index |-> -1]
               ELSE [type |-> "INVALID", move_index |-> -1]
      ELSE IF index # -1
        THEN IF index \in legal_moves
               THEN [type |-> "MOVE", move_index |-> index]
               ELSE [type |-> "INVALID", move_index |-> -1]
      ELSE [type |-> "INVALID", move_index |-> -1]

AI_DEPTH == 5

\* history_.back()
get_current_state(history) == history[Len(history)]

\* history_.pop_back()
pop_back(history) == SubSeq(history, 1, Len(history) - 1)

handle_move(history, move_index) ==
  Append(history, apply_move(get_current_state(history), move_index))

handle_pass(history) ==
  Append(history, apply_pass(get_current_state(history)))

\* handle_undo with a single pop_back.
handle_undo_one_ply(history) ==
  IF Len(history) > 1
    THEN [ok |-> TRUE, history |-> pop_back(history)]
    ELSE [ok |-> FALSE, history |-> history]

\* handle_undo: the value returned (ok) and history_ afterwards.
handle_undo(history) ==
  IF Len(history) > 1
    THEN LET popped == pop_back(history)
         IN  IF get_current_state(popped).current_player = "White"
                /\ Len(popped) > 1
               THEN [ok |-> TRUE, history |-> pop_back(popped)]
               ELSE [ok |-> TRUE, history |-> popped]
    ELSE [ok |-> FALSE, history |-> history]

\* get_ai_move: the move returned (move) and the calls made below
\* find_best_move (log.calls).
get_ai_move(history) ==
  find_best_move_run(get_current_state(history), AI_DEPTH)

move_call(s, i) == [op |-> "apply_move", s |-> s, index |-> i]
pass_call(s)    == [op |-> "apply_pass", s |-> s, index |-> -1]

(***************************************************************************)
(* The game loop of main: one action per kind of iteration.  The human     *)
(* types one of the lines of Inputs.  Besides the new game, the loop is    *)
(* also entered on the histories of two games played from the start        *)
(* (Black's moves typed, White's replies those of get_ai_move): GameLine,  *)
(* PassLine and StuckLine stop with four cells empty and Black to move     *)
(* (in PassLine Black has no legal move, StuckLine can end with one empty  *)
(* cell that neither side can take), EndLine with Black holding no disc.   *)
(***************************************************************************)
MaxGameDiscs == 5      \* opening: the human moves below this many discs
MaxEmpty     == 4      \* endgame: the human moves with up to this many empty cells
MaxHintEmpty == 3      \* the human asks for hints with up to this many empty cells

Inputs ==
  { <<"e", "3">>, <<"F", "4">>, <<" ", "c", "5", " ">>, <<"D", "6">>,
    <<"g", "1">>, <<"H", "2">>, <<"g", "8", "\r">>, <<"h", "1">>,
    <<"h", "5">>, <<"A", "7">>,
    <<"a", "1">>, <<"Z", "9">>, <<"A">>, <<"X", "X">>, <<>>, <<" ">>,
    <<"e", "3", " ", "x">>,
    <<"p">>, <<"P">>, <<"u">>, <<"U", "\t">>, <<"?">>, <<"q">> }

GameLine ==
  << 43, 42, 20, 44, 49, 41, 51, 58, 40, 12, 45, 37, 21, 30,  4, 19,
     60,  5, 50,  3, 52, 53, 54, 63, 26, 34, 57, 56, 33, 59, 55, 24,
     18, 61, 32, 10,  9,  0, 11, 48,  1, 25, 22, 23, 17, 47, 13,  2,
     38, 16, 31, 39,  8, 29, 46, 14 >>
PassLine ==
  << 34, 42, 43, 44, 53, 26, 19, 10, 41, 50, 51, 59, 17, 37, 38, 33,
      3, 40, 18, 39, 58, 16, 29,  2, 47,  4,  1,  0, 60, 55, 30, 12,
     32, 45,  5, 24,  8, 25, 49, 61, 62,  6, 20, 31, 22, 13, 14, 21,
     52, 46, 48, 56, 54, 63, 11,  9 >>
StuckLine ==
  << 29, 21, 43, 42, 41, 37, 45, 53, 20, 18, 38, 50, 22, 13, 57, 47,
     30, 31,  9,  0, 19, 10, 11, 34, 17, 16,  8, 58, 54, 56, 59, 44,
     52, 63, 26, 33,  5, 40, 12,  4, 14, 60, 25, 46, 61, 51,  3, 24,
     32, 62, 55,  2, 23, 49,  1,  6 >>
EndLine  == << 20, 21, 29, 19, 12, 5, 13, 37, 22, 23 >>

\* handle_move for every move of moves, in order (the first half of the
\* moves, then the second half).
RECURSIVE replay(_, _)
replay(history, moves) ==
  IF moves = <<>> THEN history
  ELSE IF Len(moves) = 1 THEN handle_move(history, moves[1])
  ELSE with_value(
         replay(history, SubSeq(moves, 1, Len(moves) \div 2)),
         LAMBDA played :
           replay(played, SubSeq(moves, Len(moves) \div 2 + 1, Len(moves))))

InitGame ==
  /\ history_ \in { <<GameState>>,
                    replay(<<GameState>>, GameLine),
                    replay(<<GameState>>, PassLine),
                    replay(<<GameState>>, StuckLine),
                    replay(<<GameState>>, EndLine) }
  /\ state = get_current_state(history_)
  /\ running = TRUE
  /\ input = <<>>
  /\ calls = {}

\* check_game_end returns a result: running = false; break.
GameEnd ==
  /\ running
  /\ game_over(state)
  /\ running' = FALSE
  /\ calls' = {}
  /\ UNCHANGED <<state, history_, input>>

\* Black has no move: handle_pass(); continue.
BlackAutoPass ==
  /\ running
  /\ ~game_over(state)
  /\ state.current_player = "Black"
  /\ count_discs(generate_legal_moves(state)) = 0
  /\ history_' = handle_pass(history_)
  /\ state' = get_current_state(history_')
  /\ calls' = { pass_call(state) }
  /\ UNCHANGED <<running, input>>

\* The number of empty cells.
empty_count(s) ==
  64 - (count_discs(s.black_discs) + count_discs(s.white_discs))

\* Black's turn with a legal move: read a line, parse it, switch on it.
HumanTurn ==
  /\ running
  /\ ~game_over(state)
  /\ state.current_player = "Black"
  /\ \E human_legal_moves \in { generate_legal_moves(state) } :
       /\ count_discs(human_legal_moves) # 0
       /\ \E text \in Inputs :
            \E cmd \in { parse_command(text, human_legal_moves) } :
              /\ input' = text
              /\ cmd.type = "MOVE" =>
                   \/ 64 - empty_count(state) < MaxGameDiscs
                   \/ empty_count(state) <= MaxEmpty
              /\ cmd.type = "HINT" => empty_count(state) <= MaxHintEmpty
              /\ history_' =
                   IF cmd.type = "MOVE"
                     THEN handle_move(history_, cmd.move_index)
                   ELSE IF cmd.type = "PASS" THEN handle_pass(history_)
                   ELSE IF cmd.type = "UNDO"
                     THEN handle_undo(history_).history
                   ELSE history_
              /\ calls' =
                   IF cmd.type = "MOVE"
                     THEN { move_call(state, cmd.move_index) }
                   ELSE IF cmd.type = "PASS" THEN { pass_call(state) }
                   ELSE IF cmd.type = "HINT"
                     THEN get_ai_move(history_).log.calls
                   ELSE {}
              /\ running' = (cmd.type # "QUIT")
  /\ state' = get_current_state(history_')

\* White's turn: get_ai_move, then handle_pass or handle_move.
AiTurn ==
  /\ running
  /\ ~game_over(state)
  /\ state.current_player = "White"
  /\ \E ai \in { get_ai_move(history_) } :
       LET ai_move == ai.move
       IN  /\ history_' = IF ai_move = -1 THEN handle_pass(history_)
                                          ELSE handle_move(history_, ai_move)
           /\ calls' = ai.log.calls
                         \cup { IF ai_move = -1 THEN pass_call(state)
                                                ELSE move_call(state, ai_move) }
  /\ state' = get_current_state(history_')
  /\ UNCHANGED <<running, input>>

NextGame == GameEnd \/ BlackAutoPass \/ HumanTurn \/ AiTurn

SpecGame == InitGame /\ [][NextGame]_vars

(***************************************************************************)
(* Properties                                                              *)
(***************************************************************************)
Row(i) == i \div 8
Col(i) == i % 8
Abs(x) == IF x < 0 THEN -x ELSE x

total_discs_of(s) == count_discs(s.black_discs) + count_discs(s.white_discs)
discs_of(s, p)    == IF p = "Black" THEN s.black_discs ELSE s.white_discs
with_player(s, p) == [s EXCEPT !.current_player = p]
empty_cells(s)    == Cells \ (s.black_discs \cup s.white_discs)

\* is_terminal as its callers use it: with both legal sets freshly generated.
terminal_now(s) ==
  is_terminal(s, generate_legal_moves(s),
              generate_legal_moves(with_player(s, switch_player(s.current_player))))

\* The snapshot was produced by apply_move (not by the constructor or a pass).
after_move(s) == s.last_move_coord \notin {"START", "PASS"}

\* The cell a move's last_move_coord names: the i with index_to_coord(i) =
\* coord.
cell_of(coord) == CHOOSE i \in Cells : index_to_coord(i) = coord

\* c lies in the row, the column or on a true diagonal of m.
aligned(m, c) ==
  \/ Row(m) = Row(c)
  \/ Col(m) = Col(c)
  \/ Abs(Row(m) - Row(c)) = Abs(Col(m) - Col(c))

\* Every step of the walk m, walked[1], walked[2], ... changes the column
\* by at most 1.
no_column_jump(m, walked) ==
  \A k \in 1 .. Len(walked) :
    \A b \in walked[k] :
      \A a \in (IF k = 1 THEN {m} ELSE walked[k - 1]) :
        Abs(Col(a) - Col(b)) <= 1

\* C1: rays never wrap around a board edge: from every empty cell m of the
\* current snapshot and in each of the 8 directions, every step of the walk
\* of get_flips_in_direction changes the column by at most 1, and every
\* cell of get_flips_for_move(s, m) lies in the row, the column or on a true
\* diagonal of m.
C1_NoWrapAround ==
  \A m \in empty_cells(state) :
    /\ \A d \in 1 .. 8 :
         no_column_jump(m, cells_walked(m, opp_board_of(state), DIRECTIONS[d]))
    /\ \A c \in get_flips_for_move(state, m) : aligned(m, c)

\* The geometric rule: the unit directions (dr, dc) of the 8x8 grid.
UnitDirections ==
  { <<dr, dc>> : dr \in {-1, 0, 1}, dc \in {-1, 0, 1} } \ { <<0, 0>> }

on_board(r, c) == r \in 0 .. 7 /\ c \in 0 .. 7

\* Along dir from cell c: the k-th cell is on the board and the mover's, and
\* the k - 1 cells before it are the opponent's (k >= 2).
captures_along(s, c, dir) ==
  \E k \in 2 .. 7 :
    /\ on_board(Row(c) + k * dir[1], Col(c) + k * dir[2])
    /\ (8 * (Row(c) + k * dir[1]) + Col(c) + k * dir[2]) \in own_board_of(s)
    /\ \A j \in 1 .. k - 1 :
         (8 * (Row(c) + j * dir[1]) + Col(c) + j * dir[2]) \in opp_board_of(s)

geometric_legal_moves(s) ==
  { c \in empty_cells(s) : \E dir \in UnitDirections : captures_along(s, c, dir) }

\* C2: generate_legal_moves agrees with the geometric rule: a cell is in the
\* result iff it is empty and some unit direction holds a run of one or more
\* opponent discs followed by a disc of the side to move, on the board.
C2_GeometricRule ==
  generate_legal_moves(state) = geometric_legal_moves(state)

\* C3: in every snapshot reachable from the start position by legal moves
\* and passes, black_discs and white_discs have no cell in common.
C3_Disjoint == state.black_discs \cap state.white_discs = {}

\* A snapshot produced by a move that captured, at the disc bound.
C3_Witness ==
  /\ after_move(state)
  /\ total_discs_of(state) = MaxDiscs
  /\ count_discs(own_board_of(state)) >= 1
  /\ count_discs(opp_board_of(state)) >= 3

\* C4: apply_move(s, m) for a legal m raises the total disc count by exactly
\* 1, the mover's count by |get_flips_for_move(s, m)| + 1 and lowers the
\* opponent's count by |get_flips_for_move(s, m)|; each opening move yields
\* 5 discs, 4 of the mover and 1 of the opponent.
C4_DiscCounts ==
  [][ after_move(state')
      =>
      LET m     == cell_of(state'.last_move_coord)
          n     == count_discs(get_flips_for_move(state, m))
          mover == state.current_player
          opp   == switch_player(mover)
      IN  /\ total_discs_of(state') = total_discs_of(state) + 1
          /\ count_discs(discs_of(state', mover))
               = count_discs(discs_of(state, mover)) + n + 1
          /\ count_discs(discs_of(state', opp))
               = count_discs(discs_of(state, opp)) - n
          /\ (state = GameState =>
                /\ total_discs_of(state') = 5
                /\ count_discs(discs_of(state', mover)) = 4
                /\ count_discs(discs_of(state', opp)) = 1)
    ]_vars

\* A snapshot produced by a move on a board with discs of both colours
\* that left the mover with 4 or more discs.
C4_Witness ==
  /\ after_move(state)
  /\ count_discs(opp_board_of(state)) >= 4

\* C5: apply_pass flips current_player, adds 1 to pass_count and leaves both
\* boards as they were; apply_move flips current_player and sets pass_count
\* to 0 whatever it was.
C5_TurnAndPassCount ==
  [][ IF state'.last_move_coord = "PASS"
        THEN /\ state'.current_player = switch_player(state.current_player)
             /\ state'.pass_count = state.pass_count + 1
             /\ state'.black_discs = state.black_discs
             /\ state'.white_discs = state.white_discs
        ELSE /\ state'.current_player = switch_player(state.current_player)
             /\ state'.pass_count = 0
    ]_vars

\* A snapshot produced by two passes in a row in a game where a move has
\* been applied.
C5_Witness ==
  /\ state.last_move_coord = "PASS"
  /\ state.pass_count = 2
  /\ total_discs_of(state) > 4

\* C6 (as claimed): two consecutive apply_pass calls from any non-terminal
\* position yield a terminal position whose pass count equals 2.
C6_TwoPassesCountIsTwo ==
  ~terminal_now(state) =>
    LET t == apply_pass(apply_pass(state))
    IN  terminal_now(t) /\ t.pass_count = 2

\* C6 (amended): two consecutive apply_pass calls from any non-terminal
\* position yield a terminal position whose pass count is the starting
\* count plus 2: 2 when the starting count is 0, 3 when it is 1.
C6_TwoPassesTerminal ==
  ~terminal_now(state) =>
    LET t == apply_pass(apply_pass(state))
    IN  /\ terminal_now(t)
        /\ t.pass_count = state.pass_count + 2
        /\ state.pass_count \in {0, 1}
        /\ (state.pass_count = 0 => t.pass_count = 2)
        /\ (state.pass_count = 1 => t.pass_count = 3)

\* A non-terminal snapshot produced by a pass, whose pass count is 1.
C6_Witness ==
  /\ ~terminal_now(state)
  /\ state.last_move_coord = "PASS"
  /\ state.pass_count = 1

\* Plain minimax over the tree of minimax_ab: the same leaf test, the same
\* forced-pass rule, the same evaluate, and move loops that never break.
RECURSIVE plain_minimax_run(_, _, _, _)
RECURSIVE plain_loop(_, _, _, _, _, _, _)
plain_minimax_run(s, depth, maximizing_player, ai_player) ==
  LET legal     == generate_legal_moves(s)
      opp_legal == generate_legal_moves(
                     with_player(s, switch_player(s.current_player)))
  IN  IF depth = 0 \/ is_terminal(s, legal, opp_legal)
        THEN [eval |-> evaluate(s, ai_player), leaves |-> 1]
      ELSE IF legal = {}
        THEN plain_minimax_run(apply_pass(s), depth, ~maximizing_player,
                               ai_player)
      ELSE plain_loop(s, depth, legal,
                      IF maximizing_player THEN INT_MIN ELSE INT_MAX,
                      maximizing_player, ai_player, 0)

plain_loop(s, depth, todo, best, maximizing_player, ai_player, leaves) ==
  IF todo = {} THEN [eval |-> best, leaves |-> leaves]
  ELSE LET i == lowest_bit(todo)
           r == plain_minimax_run(apply_move(s, i), depth - 1,
                                  ~maximizing_player, ai_player)
       IN  plain_loop(s, depth, todo \ {i},
                      IF maximizing_player THEN max_int(best, r.eval)
                                           ELSE min_int(best, r.eval),
                      maximizing_player, ai_player, leaves + r.leaves)

plain_minimax(s, depth, maximizing_player, ai_player) ==
  plain_minimax_run(s, depth, maximizing_player, ai_player).eval

\* The move find_best_move would pick with plain minimax scoring the
\* children: the lowest legal move of greatest score, -1 without a move.
plain_best_move(s, depth) ==
  LET legal == generate_legal_moves(s)
      score == [ i \in legal |->
                   plain_minimax(apply_move(s, i), depth - 1, FALSE,
                                 s.current_player) ]
  IN  IF legal = {} THEN -1
      ELSE lowest_bit({ i \in legal : \A j \in legal : score[j] <= score[i] })

\* C7: alpha-beta pruning never changes the result: from the full window
\* minimax_ab returns the score of plain minimax for every depth, both
\* values of the maximizing flag and both perspectives, and find_best_move
\* picks the move it would pick without pruning.
C7_PruningKeepsScore ==
  /\ \A d \in 0 .. MaxDepth : \A mx \in BOOLEAN : \A p \in Player :
       minimax_ab(state, d, INT_MIN, INT_MAX, mx, p)
         = plain_minimax(state, d, mx, p)
  /\ \A d \in 1 .. MaxDepth :
       find_best_move(state, d) = plain_best_move(state, d)

\* A snapshot on which the pruning search cuts a subtree off: it makes
\* fewer evaluate calls than plain minimax.
C7_Witness ==
  \E d \in 0 .. MaxDepth : \E mx \in BOOLEAN : \E p \in Player :
    minimax_ab_run(state, d, INT_MIN, INT_MAX, mx, p).leaves
      < plain_minimax_run(state, d, mx, p).leaves

\* The score find_best_move gives the child of every legal move of s.
child_scores(s, depth) ==
  [ i \in generate_legal_moves(s) |->
      minimax_ab(apply_move(s, i), depth - 1, INT_MIN, INT_MAX, FALSE,
                 s.current_player) ]

\* C8: find_best_move(s, d), d >= 1, returns -1 iff there is no legal move;
\* otherwise it returns a legal move (never -2): the lowest-index legal move
\* whose child score is maximal among the legal moves.
C8_BestMove ==
  \A d \in 1 .. MaxDepth :
    LET legal == generate_legal_moves(state)
        score == child_scores(state, d)
        m     == find_best_move(state, d)
    IN  /\ (m = -1) <=> (legal = {})
        /\ legal # {} =>
             /\ m \in legal
             /\ \A i \in legal :
                  /\ score[i] <= score[m]
                  /\ i < m => score[i] < score[m]

\* A snapshot on which the child scores differ and the order of the moves
\* does not decide: at one depth the move returned has a legal move of lower
\* index and one of higher index that score less, and a legal move of
\* higher index that ties with it, so that the tie-break decides between
\* the two.
C8_Witness ==
  \E d \in 1 .. MaxDepth :
    LET legal == generate_legal_moves(state)
        score == child_scores(state, d)
        m     == find_best_move(state, d)
    IN  /\ m \in legal
        /\ \E i \in legal : i < m /\ score[i] < score[m]
        /\ \E i \in legal : i > m /\ score[i] < score[m]
        /\ \E i \in legal : i > m /\ score[i] = score[m]

\* C9: evaluator symmetry: evaluate(s, Black) = -evaluate(s, White).
C9_EvaluatorSymmetry ==
  evaluate(state, "Black") = -evaluate(state, "White")

\* The number of legal moves colour c would have on the boards of s.
mobility_of(s, c) == count_discs(generate_legal_moves(with_player(s, c)))

\* trunc(w * diff) for the phase multiplier w of the total disc count.
phase_term(total, diff) ==
  IF total <= 20 THEN trunc_div(diff, 2)
  ELSE IF total <= 40 THEN 2 * diff
  ELSE 5 * diff

\* C10: evaluate(s, p) is signed from p's viewpoint whoever is to move:
\* 5 * (mob(p) - mob(opp)) + (weights of p's cells - weights of the
\* opponent's cells) + trunc(w * (discs(p) - discs(opp))).
C10_EvaluateFormula ==
  \A p \in Player :
    LET o == switch_player(p)
    IN  evaluate(state, p)
          = 5 * (mobility_of(state, p) - mobility_of(state, o))
            + (board_weight(discs_of(state, p)) - board_weight(discs_of(state, o)))
            + phase_term(total_discs_of(state),
                         count_discs(discs_of(state, p))
                           - count_discs(discs_of(state, o)))

\* The legal-move sets is_terminal may be handed with snapshot s, whatever
\* the caller computed: none, one cell, or those of either side.
supplied_sets(s) ==
  { {}, {0}, generate_legal_moves(s),
    generate_legal_moves(with_player(s, switch_player(s.current_player))) }

\* C11: is_terminal(s, a, b) is true iff the board holds 64 discs, or
\* pass_count >= 2, or a colour holds no disc, or a and b are both empty
\* while the board is not full; a snapshot with pass_count < 2, both colours
\* present and the board not full, whose side to move has no legal move
\* while the opponent has one, is not terminal.
C11_TerminalRule ==
  /\ \A a \in supplied_sets(state) : \A b \in supplied_sets(state) :
       is_terminal(state, a, b)
         <=> \/ total_discs_of(state) = 64
             \/ state.pass_count >= 2
             \/ state.black_discs = {} \/ state.white_discs = {}
             \/ (a = {} /\ b = {} /\ total_discs_of(state) # 64)
  /\ ( /\ state.pass_count < 2
       /\ state.black_discs # {} /\ state.white_discs # {}
       /\ total_discs_of(state) # 64
       /\ generate_legal_moves(state) = {}
       /\ generate_legal_moves(
            with_player(state, switch_player(state.current_player))) # {} )
     => ~terminal_now(state)

\* A snapshot whose side to move is stuck while the opponent can move, with
\* both colours present, and which is_terminal does not report terminal.
C11_Witness ==
  /\ state.pass_count < 2
  /\ state.black_discs # {} /\ state.white_discs # {}
  /\ generate_legal_moves(state) = {}
  /\ generate_legal_moves(
       with_player(state, switch_player(state.current_player))) # {}
  /\ ~terminal_now(state)

\* C13: legality soundness: every move of generate_legal_moves(s) has a
\* non-empty get_flips_for_move(s, m), all of it discs of the opponent.
C13_LegalMovesCapture ==
  \A m \in generate_legal_moves(state) :
    /\ get_flips_for_move(state, m) # {}
    /\ get_flips_for_move(state, m) \subseteq opp_board_of(state)

\* A snapshot with a legal move that captures in a direction other than the
\* first, two discs or more.
C13_Witness ==
  \E m \in generate_legal_moves(state) :
    /\ count_discs(get_flips_for_move(state, m)) >= 2
    /\ direction_flips(m, own_board_of(state), opp_board_of(state), 1) = {}

\* C14: in every snapshot reachable from the start by legal moves and
\* passes the total number of discs is between 4 and 64, and it never
\* decreases from one snapshot to the next.
C14_DiscTotal ==
  /\ [](total_discs_of(state) >= 4 /\ total_discs_of(state) <= 64)
  /\ [][total_discs_of(state') >= total_discs_of(state)]_vars

\* A snapshot produced by a move that captured two discs or more: the
\* side that was captured from holds at most 2 of 7 discs.
C14_Witness ==
  /\ after_move(state)
  /\ total_discs_of(state) = 7
  /\ count_discs(own_board_of(state)) <= 2

\* C16: apply_move with an index outside generate_legal_moves(s) never
\* returns a corrupted snapshot: the occupancies of the result do not
\* overlap and no disc is placed without a capture.
C16_IllegalMoveRejected ==
  \A i \in Cells \ generate_legal_moves(state) :
    LET t == apply_move(state, i)
    IN  /\ t.black_discs \cap t.white_discs = {}
        /\ (get_flips_for_move(state, i) = {}
              => /\ t.black_discs = state.black_discs
                 /\ t.white_discs = state.white_discs)

\* C17: the initial snapshot has Black on D4 and E5, White on E4 and D5,
\* Black to move, pass_count 0 and 4 discs, and its legal moves are exactly
\* E3, F4, C5 and D6 (20, 29, 34, 43).
C17_InitialSnapshot ==
  state.last_move_coord = "START" =>
    /\ state = GameState
    /\ state.black_discs = {27, 36}
    /\ state.white_discs = {28, 35}
    /\ { index_to_coord(i) : i \in state.black_discs } = {"D4", "E5"}
    /\ { index_to_coord(i) : i \in state.white_discs } = {"E4", "D5"}
    /\ state.current_player = "Black"
    /\ state.pass_count = 0
    /\ total_discs_of(state) = 4
    /\ generate_legal_moves(state) = {20, 29, 34, 43}
    /\ { index_to_coord(i) : i \in generate_legal_moves(state) }
         = {"E3", "F4", "C5", "D6"}

\* The snapshot the constructor built, before any move or pass.
C17_Witness ==
  /\ state.last_move_coord = "START"
  /\ count_discs(generate_legal_moves(state)) = 4

\* C12: a forced pass does not consume a ply: for every depth d >= 1,
\* every position find_best_move(s, d) hands to evaluate is terminal or was
\* reached from s by exactly d apply_move calls, the forced passes on the
\* path not counted; no minimax_ab call has a negative depth.
C12_PassKeepsDepth ==
  \A d \in 1 .. MaxDepth :
    LET log == find_best_move_log(state, d)
    IN  /\ \A e \in log.evaluated : terminal_now(e.s) \/ e.moves = d
        /\ log.mindepth >= 0

\* A snapshot from which the search goes through a forced pass and then
\* evaluates a position that is not terminal.
C12_Witness ==
  \E d \in 1 .. MaxDepth :
    LET log == find_best_move_log(state, d)
    IN  /\ \E c \in log.calls : c.op = "apply_pass"
        /\ \E e \in log.evaluated :
             /\ ~terminal_now(e.s)
             /\ e.passes >= 1
             /\ e.moves = d

\* C15: minimax_ab terminates for every snapshot and every depth d >= 0:
\* its calls nest at most d + 1 deep plus the forced-pass recursions, of
\* which at most 2 follow one another, and a position in which neither
\* side can move is never passed: it is returned as a leaf.
C15_PassChainBounded ==
  \A d \in 0 .. MaxDepth : \A mx \in BOOLEAN :
    LET log == minimax_ab_run(state, d, INT_MIN, INT_MAX, mx,
                              state.current_player).log
    IN  /\ log.chain <= 2
        /\ log.height <= 3 * (d + 1)
        /\ \A c \in log.calls :
             c.op = "apply_pass" =>
               generate_legal_moves(
                 with_player(c.s, switch_player(c.s.current_player))) # {}

\* A snapshot whose side to move has no legal move and on which minimax_ab
\* recurses on the pass.
C15_Witness ==
  /\ generate_legal_moves(state) = {}
  /\ minimax_ab_run(state, MaxDepth, INT_MIN, INT_MAX, TRUE,
                    state.current_player).log.lead = 1

(***************************************************************************)
(* Coordinates                                                             *)
(***************************************************************************)
FileLetters == << "A", "B", "C", "D", "E", "F", "G", "H" >>
RankDigits  == << "1", "2", "3", "4", "5", "6", "7", "8" >>

\* The two characters of the coordinate in row r and column c (from 0).
coord_text(r, c) == << FileLetters[c + 1], RankDigits[r + 1] >>

\* The text with its capital letters made small.
to_lower(text) ==
  [ k \in 1 .. Len(text) |->
      IF \E n \in 1 .. 26 : UpperCase[n] = text[k]
        THEN LowerCase[CHOOSE n \in 1 .. 26 : UpperCase[n] = text[k]]
        ELSE text[k] ]

\* A file letter (either case) followed by a rank digit.
well_formed(text) ==
  /\ Len(text) = 2
  /\ \E c \in 1 .. 8 : toupper(text[1]) = FileLetters[c]
  /\ \E r \in 1 .. 8 : text[2] = RankDigits[r]

MaxTextLen == 3        \* texts of up to this many characters are tried
TextChars  == { "A", "h", "I", "1", "8", "9", " " }

RECURSIVE texts_of_length(_)
texts_of_length(n) ==
  IF n = 0 THEN { <<>> }
  ELSE { Append(t, ch) : t \in texts_of_length(n - 1), ch \in TextChars }

BadTexts ==
  { t \in UNION { texts_of_length(n) : n \in 0 .. MaxTextLen }
        \cup { <<"Z", "9">>, <<"A">>, <<"X", "X">>, <<"a", "0">>,
               <<"i", "1">>, <<"1", "A">> } :
      ~well_formed(t) }

\* The human's move of the last iteration: the snapshot was made by
\* apply_move for Black and the line typed is still in input.
human_moved ==
  /\ running
  /\ input # <<>>
  /\ state.current_player = "White"
  /\ after_move(state)

\* C18: for every index i in 0..63, coord_to_index(index_to_coord(i)) = i,
\* also for the lower-cased text, where index = row * 8 + column, A1 is 0
\* and H8 is 63; text that is not a file A-H followed by a rank 1-8 (and
\* the out-of-range sentinel "XX") gives -1; the line the human typed for
\* a move converts to the cell the move was applied to.
C18_CoordRoundTrip ==
  /\ \A r \in 0 .. 7 : \A c \in 0 .. 7 :
       LET i == r * 8 + c
           t == coord_text(r, c)
       IN  /\ index_to_coord(i) = str(t)
           /\ coord_to_index(t) = i
           /\ coord_to_index(to_lower(t)) = i
  /\ index_to_coord(0) = "A1"
  /\ index_to_coord(63) = "H8"
  /\ index_to_coord(-1) = str(<<"X", "X">>)
  /\ index_to_coord(64) = str(<<"X", "X">>)
  /\ \A t \in BadTexts : coord_to_index(t) = -1
  /\ human_moved =>
       index_to_coord(coord_to_index(trim_left(trim_right(input))))
         = state.last_move_coord

\* The human typed a coordinate in small letters and the move was applied
\* to that cell.
C18_Witness ==
  /\ human_moved
  /\ input = <<"e", "3">>
  /\ state.last_move_coord = "E3"
  /\ 20 \in state.black_discs

(***************************************************************************)
(* Callers and the preconditions of the rule engine                        *)
(***************************************************************************)
\* C19: in every run of the game loop (human commands and AI replies) and
\* in every call made inside find_best_move and minimax_ab, apply_move is
\* applied only with an index that is in generate_legal_moves of the
\* snapshot it is applied to, and apply_pass only to a snapshot whose side
\* to move has no legal move.
C19_CallersRespectPreconditions ==
  \A c \in calls :
    /\ c.op = "apply_move" => c.index \in generate_legal_moves(c.s)
    /\ c.op = "apply_pass" => generate_legal_moves(c.s) = {}

\* An AI turn in which the search passed for a side without a move and
\* the move returned was applied to the head of the history.
C19_Witness ==
  /\ Len(history_) >= 2
  /\ \E c \in calls : c.op = "apply_pass"
  /\ \E c \in calls :
       /\ c.op = "apply_move"
       /\ c.s = history_[Len(history_) - 1]
       /\ c.s.current_player = "White"
       /\ state = apply_move(c.s, c.index)

(***************************************************************************)
(* Undo                                                                    *)
(***************************************************************************)
\* The line in input is the command U.
typed_undo == str(trim_left(trim_right(to_upper(input)))) = "U"

\* C20: in the game loop history_ is never empty, its first snapshot is the
\* start snapshot, and its k-th snapshot (from 0) has Black to move exactly
\* when k is even; handle_undo fails and leaves history_ unchanged iff only
\* the initial snapshot remains; otherwise, on Black's turn, it removes
\* exactly 2 snapshots and leaves a head snapshot with Black to move.
C20_UndoDiscipline ==
  LET n    == Len(history_)
      undo == handle_undo(history_)
  IN  /\ n >= 1
      /\ history_[1] = GameState
      /\ \A k \in 0 .. n - 1 :
           history_[k + 1].current_player = "Black" <=> k % 2 = 0
      /\ ~undo.ok <=> n = 1
      /\ ~undo.ok => undo.history = history_
      /\ (n > 1 /\ state.current_player = "Black") =>
           /\ undo.ok
           /\ undo.history = SubSeq(history_, 1, n - 2)
           /\ get_current_state(undo.history).current_player = "Black"

\* The human undid on Black's turn after the AI had to pass: the pass and
\* Black's move before it are gone and Black is to move again at the end
\* of GameLine.
C20_Witness ==
  /\ running
  /\ typed_undo
  /\ Len(history_) = Len(GameLine) + 1
  /\ history_ = replay(<<GameState>>, GameLine)
  /\ state.current_player = "Black"

\* The snapshot a recorded call returns.
result_of(c) ==
  IF c.op = "apply_pass" THEN apply_pass(c.s) ELSE apply_move(c.s, c.index)

\* The snapshots of history_.
snapshots == { history_[k] : k \in 1 .. Len(history_) }

\* C21: two passes never follow one another: every snapshot of history_ and
\* every snapshot visited by the search (the argument and the result of each
\* recorded apply_move and apply_pass call) has pass_count <= 1, a pass is
\* only taken when the other side has a legal move, and whenever the game is
\* over the pass_count >= 2 clause is not what decides it: the board is
\* full, a colour has no disc, or neither side has a legal move.
C21_PassCountAtMostOne ==
  /\ \A s \in snapshots : s.pass_count <= 1
  /\ \A c \in calls :
       /\ c.s.pass_count <= 1
       /\ result_of(c).pass_count <= 1
       /\ c.op = "apply_pass" =>
            count_discs(generate_legal_moves(apply_pass(c.s))) # 0
  /\ game_over(state) =>
       /\ state.pass_count < 2
       /\ \/ total_discs_of(state) = 64
          \/ count_discs(state.black_discs) = 0
          \/ count_discs(state.white_discs) = 0
          \/ /\ count_discs(generate_legal_moves(with_player(state, "Black"))) = 0
             /\ count_discs(generate_legal_moves(with_player(state, "White"))) = 0

\* White has just moved after a pass of Black that is still in history_,
\* and the search behind White's move passed for a side on a snapshot of
\* its own.
C21_Witness ==
  /\ state.current_player = "Black"
  /\ after_move(state)
  /\ \E s \in snapshots : s.pass_count = 1
  /\ \E c \in calls :
       /\ c.op = "apply_pass"
       /\ c.s \notin snapshots
       /\ result_of(c).pass_count = 1

\* is_terminal with the zero-disc clause taken out.
is_terminal_without_zero_disc_clause(s, black_legal, white_legal) ==
  LET total_discs == count_discs(s.black_discs) + count_discs(s.white_discs)
  IN  IF total_discs = 64 THEN TRUE
      ELSE IF s.pass_count >= 2 THEN TRUE
      ELSE IF count_discs(black_legal) = 0 /\ count_discs(white_legal) = 0
              /\ total_discs < 64
        THEN TRUE
      ELSE FALSE

\* The current snapshot, and the current snapshot with the discs of one
\* colour taken off the board.
wiped_out(s) ==
  { s, [s EXCEPT !.black_discs = {}], [s EXCEPT !.white_discs = {}] }

\* C22: the zero-disc clause of is_terminal is redundant: for every snapshot
\* with disjoint occupancies in which Black or White holds no disc,
\* generate_legal_moves is empty for both colours, and is_terminal with
\* freshly generated legal sets returns the same value with and without the
\* zero-disc clause.
C22_ZeroDiscRedundant ==
  \A s \in wiped_out(state) :
    ( /\ s.black_discs \cap s.white_discs = {}
      /\ \/ count_discs(s.black_discs) = 0
         \/ count_discs(s.white_discs) = 0 )
    =>
    \E black_legal \in { generate_legal_moves(with_player(s, "Black")) } :
      \E white_legal \in { generate_legal_moves(with_player(s, "White")) } :
        /\ black_legal = {}
        /\ white_legal = {}
        /\ is_terminal(s, black_legal, white_legal)
             = is_terminal_without_zero_disc_clause(s, black_legal, white_legal)

\* A move has just captured the last disc of the side now to move, the
\* mover holds three or more discs and the board has empty cells next to
\* them.
C22_Witness ==
  /\ after_move(state)
  /\ own_board_of(state) = {}
  /\ count_discs(opp_board_of(state)) >= 3
  /\ total_discs_of(state) < 64

(***************************************************************************)
(* The game loop played to its end.  Whenever asked, the human types the   *)
(* coordinate of a legal move (in either case) or one of OtherLines: undo, *)
(* quit, a hint request, a pass that is refused, a coordinate that is not  *)
(* on the board, an occupied cell.  The loop is entered on the histories   *)
(* of games played from the start, cut where LiveEmpty cells are empty,    *)
(* and on EndLine.  The loop of main runs one iteration after another, so  *)
(* an iteration that can be made is made.                                  *)
(***************************************************************************)
LiveEmpty == 4         \* the games are entered with this many empty cells

TwoPassLine ==
  << 43, 42, 29, 21, 41, 37, 45, 53, 22, 44, 61, 40, 20, 18, 19, 23,
      9, 46, 13,  5,  6,  7, 54, 34, 26,  0, 33, 63, 49, 50, 11,  2,
     38, 39, 59, 24, 12, 10, 25, 16,  8, 32, 55,  3, 30, 52, 17, 31,
     14,  1, 60, 51, 48, 58, 57,  4 >>
ThreePassLine ==
  << 34, 42, 20, 21, 43, 19, 49, 41, 14, 22, 10, 18, 33,  2,  9, 17,
     11,  0, 12,  4, 23,  3,  1, 51,  5,  6, 44, 24, 50, 45, 25, 40,
     60, 16, 52, 29, 26, 32, 37, 58,  8, 61, 48, 56, 62, 59, 57, 63,
     53, 46, 30, 13, 54, 31, 38, 15 >>
AiPassLine ==
  << 29, 21, 20, 19, 42, 45, 44, 37, 22, 23, 46, 43, 26, 47, 53, 61,
     11, 17, 25,  3,  9, 24, 14, 34, 30, 13, 51, 39, 38, 50, 33, 16,
     49, 18, 54, 58, 31,  0,  5, 63, 62, 12, 15,  7,  8, 60, 57, 52,
      2,  1, 10,  4,  6, 32, 55, 56 >>
OneLeftLine ==
  << 43, 42, 29, 21, 13, 30, 39,  5, 41, 44, 22, 40, 34, 20, 51, 58,
     18, 19, 52, 61, 33, 26, 50, 10, 14, 37, 49, 31, 32, 24, 57, 56,
     53, 47, 25, 59, 38, 60,  2, 16, 11, 45, 17,  3,  6,  7, 62, 46,
     12, 23,  8, 63,  9,  1, 54,  0 >>
LatePassLine ==
  << 29, 21, 43, 42, 34, 37, 20, 26, 18, 10, 25, 44, 51, 12,  2, 24,
     38, 45, 49, 47, 13,  5, 39, 58, 19, 11, 30, 31,  9,  0, 16, 50,
      8, 46, 52, 41, 32, 40, 22,  1, 54, 63,  4,  3, 17, 23, 62, 14,
     53, 33, 48, 56,  6, 61, 60,  7 >>
FullLine ==
  << 43, 42, 34, 44, 21, 18, 52, 45, 49, 41, 53, 29, 20, 13, 46, 47,
     12,  4, 33, 61, 19, 11, 37, 30, 38, 24,  5, 26, 10,  2,  3,  6,
      1,  0, 50, 39, 54, 25, 14, 63, 22, 58, 59, 60, 55, 32, 51, 17,
     16, 40, 48,  8,  9, 23, 31, 57 >>
LastPassLine ==
  << 29, 21, 43, 42, 34, 37, 49, 50, 44, 26, 17, 18, 57, 45, 22, 16,
     33, 23, 19, 32, 14, 20,  8, 51, 12,  0, 46, 47, 52,  4, 30, 61,
     55, 63, 41, 58, 54, 56,  5, 38, 53, 60, 25, 24,  3, 59, 40,  9,
     10,  2, 13, 11,  1,  6, 31, 39 >>

LiveLines ==
  { GameLine, PassLine, StuckLine, TwoPassLine, ThreePassLine, AiPassLine,
    OneLeftLine, LatePassLine, FullLine, LastPassLine }

InitLive ==
  /\ history_ \in { replay(<<GameState>>, SubSeq(line, 1, 60 - LiveEmpty))
                    : line \in LiveLines }
                  \cup { replay(<<GameState>>, EndLine) }
  /\ state = get_current_state(history_)
  /\ running = TRUE
  /\ input = <<>>
  /\ calls = {}

\* The lines that name cell i.
move_texts(i) ==
  { coord_text(Row(i), Col(i)), to_lower(coord_text(Row(i), Col(i))) }

\* The lines typed that are not a legal move.
OtherLines ==
  { <<"u">>, <<"q">>, <<"?">>, <<"p">>, <<"Z", "9">>, <<"d", "4">> }

\* Black's turn with a legal move: read a line, parse it, switch on it.
\* Moves are typed with up to LiveEmpty empty cells, hints asked with up to
\* MaxHintEmpty.
HumanLine ==
  /\ running
  /\ ~game_over(state)
  /\ state.current_player = "Black"
  /\ \E human_legal_moves \in { generate_legal_moves(state) } :
       /\ count_discs(human_legal_moves) # 0
       /\ \E text \in OtherLines
                       \cup UNION { move_texts(i) : i \in human_legal_moves } :
            \E cmd \in { parse_command(text, human_legal_moves) } :
              /\ input' = text
              /\ cmd.type = "MOVE" => empty_count(state) <= LiveEmpty
              /\ cmd.type = "HINT" => empty_count(state) <= MaxHintEmpty
              /\ history_' =
                   IF cmd.type = "MOVE"
                     THEN handle_move(history_, cmd.move_index)
                   ELSE IF cmd.type = "PASS" THEN handle_pass(history_)
                   ELSE IF cmd.type = "UNDO"
                     THEN handle_undo(history_).history
                   ELSE history_
              /\ calls' =
                   IF cmd.type = "MOVE"
                     THEN { move_call(state, cmd.move_index) }
                   ELSE IF cmd.type = "PASS" THEN { pass_call(state) }
                   ELSE IF cmd.type = "HINT"
                     THEN get_ai_move(history_).log.calls
                   ELSE {}
              /\ running' = (cmd.type # "QUIT")
  /\ state' = get_current_state(history_')

NextLive == GameEnd \/ BlackAutoPass \/ HumanLine \/ AiTurn

\* The loop is waiting for the human's line, and it is the AI's turn.
human_asked ==
  /\ running
  /\ ~game_over(state)
  /\ state.current_player = "Black"
  /\ count_discs(generate_legal_moves(state)) # 0
ai_to_move ==
  /\ running
  /\ ~game_over(state)
  /\ state.current_player = "White"

\* Weak fairness of each kind of iteration.  HumanLine can be taken exactly
\* when human_asked holds (the human answers when asked) and AiTurn exactly
\* when ai_to_move holds (the AI always has a move or a pass to make); for
\* these two the condition is written with that predicate.
SpecLive ==
  /\ InitLive
  /\ [][NextLive]_vars
  /\ WF_vars(GameEnd)
  /\ WF_vars(BlackAutoPass)
  /\ ([]<>(~human_asked) \/ []<><<HumanLine>>_vars)
  /\ ([]<>(~ai_to_move) \/ []<><<AiTurn>>_vars)

\* The number of moves among the first k snapshots of history_.
moves_made(k) ==
  Cardinality({ j \in 2 .. k : history_[j].last_move_coord # "PASS" })

\* Every line typed so far was a legal move: input holds the last line.
only_moves_typed == input \notin OtherLines

\* C23: the game ends.  If undo is never used and a legal move is typed
\* whenever the human is asked (no line of OtherLines is ever typed), game
\* over is eventually announced (the loop stops on a check_game_end
\* result); every move adds one disc, so there are at most 60 moves; two
\* passes never follow one another, and the step after a pass is a move of
\* the other side or the game-over announcement.
C23_GameEnds ==
  /\ [](\A k \in 1 .. Len(history_) :
          /\ total_discs_of(history_[k]) = 4 + moves_made(k)
          /\ moves_made(k) <= 60
          /\ (k > 1 /\ history_[k].last_move_coord = "PASS")
               => history_[k - 1].last_move_coord # "PASS")
  /\ [][ (running /\ state.last_move_coord = "PASS" /\ only_moves_typed')
         => \/ /\ ~running'
               /\ game_over(state)
               /\ history_' = history_
            \/ /\ running'
               /\ history_' = handle_move(history_,
                                          cell_of(state'.last_move_coord))
               /\ state'.current_player = switch_player(state.current_player)
               /\ total_discs_of(state') = total_discs_of(state) + 1
       ]_vars
  /\ ([]only_moves_typed => <>(~running /\ game_over(state)))

\* Game over has been announced after 60 moves, the last ones typed by the
\* human, with a pass among them.
C23_Witness ==
  /\ ~running
  /\ game_over(state)
  /\ input # <<>>
  /\ only_moves_typed
  /\ moves_made(Len(history_)) = 60
  /\ \E s \in snapshots : s.last_move_coord = "PASS"

\* C24: a successful undo gives Black the turn back: when the human, asked
\* for a line on Black's turn, types undo and handle_undo returns true, the
\* head snapshot afterwards has Black to move with at least one legal move,
\* so the next iteration waits for Black's line (it does not pass for
\* Black and let the AI replay the move that was undone).
C24_UndoGivesBlackTheTurn ==
  [][ ( /\ human_asked
        /\ typed_undo'
        /\ handle_undo(history_).ok
        /\ history_' = handle_undo(history_).history )
      =>
      ( /\ state'.current_player = "Black"
        /\ count_discs(generate_legal_moves(state')) # 0 )
    ]_vars

\* C25: in every minimax_ab call made below find_best_move (at a depth of
\* 1 .. MaxDepth, from the current snapshot), maximizing_player is true
\* exactly when the side to move of the call's snapshot is ai_player, and
\* ai_player is the side find_best_move was called for.
C25_FlagFollowsPlayer ==
  \A d \in 1 .. MaxDepth :
    \A f \in find_best_move_log(state, d).flags :
      /\ f.maximizing <=> (f.player = f.ai)
      /\ f.ai = state.current_player

\* A search at the greatest depth with calls of both kinds, a forced pass
\* among them.
C25_Witness ==
  \E log \in { find_best_move_log(state, MaxDepth) } :
    /\ \E f \in log.flags : f.maximizing
    /\ \E f \in log.flags : ~f.maximizing
    /\ \E c \in log.calls : c.op = "apply_pass"
====
